---- MODULE Spec2Model ----
(***************************************************************************)
(* Model of pylib/stdtrap.py: trapping stdout/stderr at the file           *)
(* descriptor level with a forked splicer (collector) process.             *)
(*                                                                         *)
(* Processes: the parent "P" and one splicer child per Splicer, "C1" for   *)
(* the splice of fd 1 and "C2" for the splice of fd 2.  Every process has  *)
(* its own descriptor table (fork copies it); descriptors are named by the *)
(* variable of the source that holds their number.  The channel is the     *)
(* pipe created by os.pipe() (usepty=False).                               *)
(***************************************************************************)
EXTENDS Integers, Sequences, FiniteSets, TLC

\* ---------------------------------------------------------------- bounds
MaxWrites == 3      \* os.write calls made by the code under the trap
MaxFairWrites == 1  \* the same, in the behaviours checked for termination
PipeCap == 2        \* bytes the kernel buffers in the spliced channel
OutCap == 1         \* bytes the kernel buffers in outpipe

\* ---------------------------------------------------------------- names
Procs == {"P", "C1", "C2"}
Splices == {1, 2}
Child(i) == IF i = 1 THEN "C1" ELSE "C2"

None == <<"none", 0>>
StdFd(n) == <<"fd", n>>              \* sys.stdout.fileno() = 1, sys.stderr.fileno() = 2
DupSlot(i) == <<"orig_fd_dup", i>>   \* orig_fd_dup of Splicer i
RSlot(i) == <<"r", i>>               \* r of Splicer i
WSlot(i) == <<"w", i>>               \* w of Splicer i
OutRSlot(i) == <<"outpipe.r", i>>    \* outpipe.r of Splicer i
OutWSlot(i) == <<"outpipe.w", i>>    \* outpipe.w of Splicer i
StderrDupSlot == <<"stderr_dupfd", 0>>
FileSlot == <<"files", 0>>           \* the descriptor of the file passed in files
Slots == {StdFd(1), StdFd(2), StderrDupSlot, FileSlot}
         \cup {DupSlot(i) : i \in Splices} \cup {RSlot(i) : i \in Splices}
         \cup {WSlot(i) : i \in Splices} \cup {OutRSlot(i) : i \in Splices}
         \cup {OutWSlot(i) : i \in Splices}

\* open file descriptions
Orig(n) == <<"orig", n>>             \* what fd n referred to before the trap
ChW(i) == <<"chW", i>>               \* write end of the channel of Splicer i
ChR(i) == <<"chR", i>>               \* read end of the channel of Splicer i
OpW(i) == <<"opW", i>>               \* write end of outpipe of Splicer i
OpR(i) == <<"opR", i>>               \* read end of outpipe of Splicer i
FileDesc == <<"file", 0>>            \* the open file passed in files
Descs == {Orig(1), Orig(2), FileDesc} \cup {ChW(i) : i \in Splices} \cup {ChR(i) : i \in Splices}
         \cup {OpW(i) : i \in Splices} \cup {OpR(i) : i \in Splices}

Modes == {"single", "dual", "united", "helper"}
SinkNames == {"outpipe", "file", "orig"}

VARIABLES
    mode,        \* the trap: StdTrap(stderr=False), StdTrap(), UnitedStdTrap(), silence/getoutput
    transparent, \* the transparent argument
    origNonblock,\* O_NONBLOCK of what fd 1 and fd 2 refer to, before the trap
    ppc,         \* position of the parent
    cur,         \* the Splicer the parent is starting or closing
    fdt,         \* descriptor table of every process
    nonblock,    \* O_NONBLOCK flag of every open file description
    chan,        \* bytes in the channel of each Splicer
    opipe,       \* bytes in outpipe of each Splicer
    dest,        \* bytes received by the original destinations
    cpc,         \* position of each splicer child
    closed,      \* local variable closed of each splicer child
    sinks,       \* local variable sinks of each splicer child (names, in order)
    sdata,       \* Sink.data of each sink of each splicer child
    reg,         \* what is registered with poll in each splicer child
    sigpend,     \* SIGUSR1 sent to a process and not yet handled
    sigval,      \* SignalEvent.value in each process
    captured,    \* bytes read by Splicer.close from splicer_reader
    wlog,        \* every byte written under the trap, in write order
    raised,      \* the callback of silence/getoutput raised
    closeLog,    \* the steps Splicer.close has performed, in order
    dupCloses,   \* how many times the parent closed orig_fd_dup of each Splicer
    budget,      \* how many bytes the code under the trap writes at most
    files,       \* UnitedStdTrap is given one file in files
    broken,      \* the destination whose writes fail from now on: "none", "orig" or "file"
    fileOut,     \* bytes received by the file passed in files
    rlog         \* bytes each splicer child has read from its channel, in order

vars == <<mode, transparent, origNonblock, ppc, cur, fdt, nonblock, chan, opipe, dest,
          cpc, closed, sinks, sdata, reg, sigpend, sigval, captured, wlog, raised,
          closeLog, dupCloses, budget, files, broken, fileOut, rlog>>

\* ---------------------------------------------------------------- helpers
Min(a, b) == IF a < b THEN a ELSE b
Take(s, n) == SubSeq(s, 1, n)
Drop(s, n) == SubSeq(s, n + 1, Len(s))
IsPrefix(s, t) == Len(s) <= Len(t) /\ Take(t, Len(s)) = s

RECURSIVE SelectTo(_, _)
\* the bytes of a write log that went into a given set of fds
SelectTo(s, fds) ==
    IF s = <<>> THEN <<>>
    ELSE IF s[1][1] \in fds THEN <<s[1]>> \o SelectTo(Tail(s), fds)
    ELSE SelectTo(Tail(s), fds)

EmptyTable == [s \in Slots |-> None]
Holders(d) == {p \in Procs : \E s \in Slots : fdt[p][s] = d}

\* the descriptor table of the parent before any trap is started
InitTable == [EmptyTable EXCEPT ![StdFd(1)] = Orig(1), ![StdFd(2)] = Orig(2)]

\* the same, with the file the caller opened to pass it in files
TableBefore(f) == IF f THEN [InitTable EXCEPT ![FileSlot] = FileDesc] ELSE InitTable

InitWith(b) ==
    /\ budget = b
    /\ mode \in Modes
    /\ transparent \in (IF mode = "helper" THEN {FALSE} ELSE BOOLEAN)
    \* before the trap fd 1 is in blocking mode and fd 2 in non-blocking mode, so
    \* that both modes occur in every behaviour
    /\ origNonblock = [n \in {1, 2} |-> n = 2]
    /\ ppc = "s_dup"
    /\ cur = 1
    /\ files \in (IF mode = "united" THEN BOOLEAN ELSE {FALSE})
    /\ broken = "none"
    /\ fileOut = <<>>
    /\ rlog = [i \in Splices |-> <<>>]
    /\ fdt = [p \in Procs |-> IF p = "P" THEN TableBefore(files) ELSE EmptyTable]
    /\ nonblock = [d \in Descs |-> IF d \in {Orig(1), Orig(2)} THEN origNonblock[d[2]] ELSE FALSE]
    /\ chan = [i \in Splices |-> <<>>]
    /\ opipe = [i \in Splices |-> <<>>]
    /\ dest = [n \in {1, 2} |-> <<>>]
    /\ cpc = [i \in Splices |-> "unborn"]
    /\ closed = [i \in Splices |-> FALSE]
    /\ sinks = [i \in Splices |-> <<>>]
    /\ sdata = [i \in Splices |-> [n \in SinkNames |-> <<>>]]
    /\ reg = [i \in Splices |-> {}]
    /\ sigpend = [p \in Procs |-> FALSE]
    /\ sigval = [p \in Procs |-> FALSE]
    /\ captured = [i \in Splices |-> <<>>]
    /\ wlog = <<>>
    /\ raised = FALSE
    /\ closeLog = [i \in Splices |-> <<>>]
    /\ dupCloses = [i \in Splices |-> 0]

Init == InitWith(MaxWrites)

\* ---------------------------------------------------------------- fcntl
\* set_blocking(fd, block): F_SETFL with O_NONBLOCK, or with ~O_NONBLOCK when block
SetBlocking(flags, d, block) == [flags EXCEPT ![d] = ~block]

\* ---------------------------------------------------------------- Splicer._splice, parent side
\* orig_fd_dup = os.dup(spliced_fd)
SpliceDup(i) ==
    /\ ppc = "s_dup" /\ cur = i
    /\ fdt' = [fdt EXCEPT !["P"][DupSlot(i)] = fdt["P"][StdFd(i)]]
    /\ ppc' = "s_pipe"
    /\ UNCHANGED <<mode, transparent, origNonblock, cur, nonblock, chan, opipe, dest, cpc,
                   closed, sinks, sdata, reg, sigpend, sigval, captured, wlog, raised,
                   closeLog, dupCloses, budget,
                   files, broken, fileOut, rlog>>

\* r, w = os.pipe()
SplicePipe(i) ==
    /\ ppc = "s_pipe" /\ cur = i
    /\ fdt' = [fdt EXCEPT !["P"][RSlot(i)] = ChR(i), !["P"][WSlot(i)] = ChW(i)]
    /\ ppc' = "s_dup2"
    /\ UNCHANGED <<mode, transparent, origNonblock, cur, nonblock, chan, opipe, dest, cpc,
                   closed, sinks, sdata, reg, sigpend, sigval, captured, wlog, raised,
                   closeLog, dupCloses, budget,
                   files, broken, fileOut, rlog>>

\* mutant of SpliceDup2: the write end is always spliced onto fd 1
SpliceDup2OntoStdout(i) ==
    /\ ppc = "s_dup2" /\ cur = i
    /\ fdt' = [fdt EXCEPT !["P"][StdFd(1)] = fdt["P"][WSlot(i)], !["P"][WSlot(i)] = None]
    /\ ppc' = "s_outpipe"
    /\ UNCHANGED <<mode, transparent, origNonblock, cur, nonblock, chan, opipe, dest, cpc,
                   closed, sinks, sdata, reg, sigpend, sigval, captured, wlog, raised,
                   closeLog, dupCloses, budget,
                   files, broken, fileOut, rlog>>

\* os.dup2(w, spliced_fd); os.close(w)
SpliceDup2(i) ==
    /\ ppc = "s_dup2" /\ cur = i
    /\ fdt' = [fdt EXCEPT !["P"][StdFd(i)] = fdt["P"][WSlot(i)], !["P"][WSlot(i)] = None]
    /\ ppc' = "s_outpipe"
    /\ UNCHANGED <<mode, transparent, origNonblock, cur, nonblock, chan, opipe, dest, cpc,
                   closed, sinks, sdata, reg, sigpend, sigval, captured, wlog, raised,
                   closeLog, dupCloses, budget,
                   files, broken, fileOut, rlog>>

\* outpipe = Pipe()
SpliceOutpipe(i) ==
    /\ ppc = "s_outpipe" /\ cur = i
    /\ fdt' = [fdt EXCEPT !["P"][OutRSlot(i)] = OpR(i), !["P"][OutWSlot(i)] = OpW(i)]
    /\ ppc' = "s_fork"
    /\ UNCHANGED <<mode, transparent, origNonblock, cur, nonblock, chan, opipe, dest, cpc,
                   closed, sinks, sdata, reg, sigpend, sigval, captured, wlog, raised,
                   closeLog, dupCloses, budget,
                   files, broken, fileOut, rlog>>

\* signal_event = SignalEvent(); splicer_pid = os.fork()
\* the child starts with a copy of the parent's descriptors and of the new, clear event
SpliceFork(i) ==
    /\ ppc = "s_fork" /\ cur = i
    /\ sigval' = [sigval EXCEPT !["P"] = FALSE, ![Child(i)] = FALSE]
    /\ fdt' = [fdt EXCEPT ![Child(i)] = fdt["P"]]
    /\ cpc' = [cpc EXCEPT ![i] = "c_setup"]
    /\ ppc' = "s_pclose"
    /\ UNCHANGED <<mode, transparent, origNonblock, cur, nonblock, chan, opipe, dest,
                   closed, sinks, sdata, reg, sigpend, captured, wlog, raised,
                   closeLog, dupCloses, budget,
                   files, broken, fileOut, rlog>>

\* os.dup, os.pipe, Pipe() or os.fork raises: nothing in _splice or in the
\* constructors catches it, so it reaches the caller with the state as it is
SpliceFail(i) ==
    /\ ppc \in {"s_dup", "s_pipe", "s_outpipe", "s_fork"} /\ cur = i
    /\ ppc' = "start_failed"
    /\ UNCHANGED <<mode, transparent, origNonblock, cur, fdt, nonblock, chan, opipe, dest,
                   cpc, closed, sinks, sdata, reg, sigpend, sigval, captured, wlog, raised,
                   closeLog, dupCloses, budget,
                   files, broken, fileOut, rlog>>

\* mutant of SpliceParentClose: outpipe.w.close() only, r stays open in the parent
SpliceParentCloseKeepsR(i) ==
    /\ ppc = "s_pclose" /\ cur = i
    /\ fdt' = [fdt EXCEPT !["P"][OutWSlot(i)] = None]
    /\ ppc' = "s_wait"
    /\ UNCHANGED <<mode, transparent, origNonblock, cur, nonblock, chan, opipe, dest, cpc,
                   closed, sinks, sdata, reg, sigpend, sigval, captured, wlog, raised,
                   closeLog, dupCloses, budget,
                   files, broken, fileOut, rlog>>

\* outpipe.w.close(); os.close(r)
SpliceParentClose(i) ==
    /\ ppc = "s_pclose" /\ cur = i
    /\ fdt' = [fdt EXCEPT !["P"][OutWSlot(i)] = None, !["P"][RSlot(i)] = None]
    /\ ppc' = "s_wait"
    /\ UNCHANGED <<mode, transparent, origNonblock, cur, nonblock, chan, opipe, dest, cpc,
                   closed, sinks, sdata, reg, sigpend, sigval, captured, wlog, raised,
                   closeLog, dupCloses, budget,
                   files, broken, fileOut, rlog>>

\* where the constructor of the trap goes on after Splicer i is built
AfterSplice(m, i) ==
    IF m = "dual" /\ i = 1 THEN <<"s_dup", 2>>
    ELSE IF m \in {"united", "helper"} THEN <<"u_dup", 1>>
    ELSE <<"work", 1>>

\* mutant of SpliceWait: returns without looking at signal_continue
SpliceWaitNoHandshake(i) ==
    /\ ppc = "s_wait" /\ cur = i
    /\ ppc' = AfterSplice(mode, i)[1]
    /\ cur' = AfterSplice(mode, i)[2]
    /\ UNCHANGED <<mode, transparent, origNonblock, fdt, nonblock, chan, opipe, dest, cpc,
                   closed, sinks, sdata, reg, sigpend, sigval, captured, wlog, raised,
                   closeLog, dupCloses, budget,
                   files, broken, fileOut, rlog>>

\* while not signal_continue.isSet(): pass; return splicer_pid, outpipe.r, orig_fd_dup
SpliceWait(i) ==
    /\ ppc = "s_wait" /\ cur = i
    /\ sigval["P"]
    /\ ppc' = AfterSplice(mode, i)[1]
    /\ cur' = AfterSplice(mode, i)[2]
    /\ UNCHANGED <<mode, transparent, origNonblock, fdt, nonblock, chan, opipe, dest, cpc,
                   closed, sinks, sdata, reg, sigpend, sigval, captured, wlog, raised,
                   closeLog, dupCloses, budget,
                   files, broken, fileOut, rlog>>

\* UnitedStdTrap.__init__: self.stderr_dupfd = os.dup(sys.stderr.fileno())
UnitedDup ==
    /\ ppc = "u_dup"
    /\ fdt' = [fdt EXCEPT !["P"][StderrDupSlot] = fdt["P"][StdFd(2)]]
    /\ ppc' = "u_dup2"
    /\ UNCHANGED <<mode, transparent, origNonblock, cur, nonblock, chan, opipe, dest, cpc,
                   closed, sinks, sdata, reg, sigpend, sigval, captured, wlog, raised,
                   closeLog, dupCloses, budget,
                   files, broken, fileOut, rlog>>

\* UnitedStdTrap.__init__: os.dup2(sys.stdout.fileno(), sys.stderr.fileno())
UnitedDup2 ==
    /\ ppc = "u_dup2"
    /\ fdt' = [fdt EXCEPT !["P"][StdFd(2)] = fdt["P"][StdFd(1)]]
    /\ ppc' = "work"
    /\ UNCHANGED <<mode, transparent, origNonblock, cur, nonblock, chan, opipe, dest, cpc,
                   closed, sinks, sdata, reg, sigpend, sigval, captured, wlog, raised,
                   closeLog, dupCloses, budget,
                   files, broken, fileOut, rlog>>

\* ---------------------------------------------------------------- Sink
\* mutant of SinkBuffer: self.data = data
SinkBufferReplaces(data, more) == more

\* Sink.buffer(data): self.data += data
SinkBuffer(data, more) == data \o more

\* mutant of SinkWrite: the whole buffer is taken to be written
SinkWriteWhole(data, written) == <<<<>>, TRUE>>

\* Sink.write() when os.write accepted `written` bytes -> <<self.data, return value>>
SinkWrite(data, written) ==
    LET rest == Drop(data, written) IN <<rest, rest = <<>>>>

\* mutant of SinkWriteFailed: on error the buffer is given up and the sink reports drained
SinkWriteFailedDrops(data) == <<<<>>, TRUE>>

\* Sink.write() when os.write raised: except: return False
SinkWriteFailed(data) == <<data, FALSE>>

\* what os.write can do with a sink's data: nothing (the sink's fd is not in
\* the events), raise (-1, the destination is broken), or take 1..len bytes
WriteResults(ready, isBroken, data) ==
    IF ~ready THEN {0} ELSE IF isBroken THEN {-1} ELSE 1..Len(data)

\* Sink.write() with the result k of os.write -> <<self.data, return value>>
SinkWriteResult(data, k) == IF k < 0 THEN SinkWriteFailed(data) ELSE SinkWrite(data, k)

\* the bytes os.write took
Taken(data, k) == IF k < 0 THEN <<>> ELSE Take(data, k)

\* ---------------------------------------------------------------- Splicer._splice, child side
Range(s) == {s[k] : k \in 1..Len(s)}

\* mutant of CollectorSetup: the child also puts orig_fd_dup in non-blocking mode
CollectorSetupNonblockOrig(i) ==
    /\ cpc[i] = "c_setup"
    /\ fdt' = [fdt EXCEPT ![Child(i)][OutRSlot(i)] = None, ![Child(i)][StdFd(i)] = None]
    /\ nonblock' = SetBlocking(SetBlocking(SetBlocking(nonblock, fdt[Child(i)][RSlot(i)], FALSE),
                                           fdt[Child(i)][OutWSlot(i)], FALSE),
                               fdt[Child(i)][DupSlot(i)], FALSE)
    /\ reg' = [reg EXCEPT ![i] = {"r"}]
    /\ closed' = [closed EXCEPT ![i] = FALSE]
    /\ cpc' = [cpc EXCEPT ![i] = "c_signal"]
    /\ UNCHANGED <<mode, transparent, origNonblock, ppc, cur, chan, opipe, dest, sinks, sdata,
                   sigpend, sigval, captured, wlog, raised, closeLog, dupCloses, budget,
                   files, broken, fileOut, rlog>>

\* outpipe.r.close(); os.close(spliced_fd); set_blocking(r, False);
\* set_blocking(outpipe.fileno(), False); poll.register(r, POLLIN | POLLHUP); closed = False
CollectorSetup(i) ==
    /\ cpc[i] = "c_setup"
    /\ fdt' = [fdt EXCEPT ![Child(i)][OutRSlot(i)] = None, ![Child(i)][StdFd(i)] = None]
    /\ nonblock' = SetBlocking(SetBlocking(nonblock, fdt[Child(i)][RSlot(i)], FALSE),
                               fdt[Child(i)][OutWSlot(i)], FALSE)
    /\ reg' = [reg EXCEPT ![i] = {"r"}]
    /\ closed' = [closed EXCEPT ![i] = FALSE]
    /\ cpc' = [cpc EXCEPT ![i] = "c_signal"]
    /\ UNCHANGED <<mode, transparent, origNonblock, ppc, cur, chan, opipe, dest, sinks, sdata,
                   sigpend, sigval, captured, wlog, raised, closeLog, dupCloses, budget,
                   files, broken, fileOut, rlog>>

\* SignalEvent.send(os.getppid())
CollectorSignal(i) ==
    /\ cpc[i] = "c_signal"
    /\ sigpend' = [sigpend EXCEPT !["P"] = TRUE]
    /\ cpc' = [cpc EXCEPT ![i] = "c_sinks"]
    /\ UNCHANGED <<mode, transparent, origNonblock, ppc, cur, fdt, nonblock, chan, opipe, dest,
                   closed, sinks, sdata, reg, sigval, captured, wlog, raised, closeLog,
                   dupCloses, budget,
                   files, broken, fileOut, rlog>>

\* the sinks list: outpipe, then the files, then orig_fd_dup if transparent
SinkList(t, f) ==
    <<"outpipe">> \o (IF f THEN <<"file">> ELSE <<>>) \o (IF t THEN <<"orig">> ELSE <<>>)

\* r_fh = os.fdopen(r, "r", 0); sinks = [ Sink(outpipe.fileno()) ] ...
CollectorSinks(i) ==
    /\ cpc[i] = "c_sinks"
    /\ sinks' = [sinks EXCEPT ![i] = SinkList(transparent, files)]
    /\ sdata' = [sdata EXCEPT ![i] = [n \in SinkNames |-> <<>>]]
    /\ cpc' = [cpc EXCEPT ![i] = "c_top"]
    /\ UNCHANGED <<mode, transparent, origNonblock, ppc, cur, fdt, nonblock, chan, opipe, dest,
                   closed, reg, sigpend, sigval, captured, wlog, raised, closeLog, dupCloses, budget,
                   files, broken, fileOut, rlog>>

\* has_unwritten_data = True in [ sink.data != '' for sink in sinks ]
HasUnwrittenData(i) == \E n \in Range(sinks[i]) : sdata[i][n] # <<>>

\* mutant of LoopBreaks: the loop is left without looking at the sinks
LoopBreaksOnClosed(i) == closed[i] \/ sigval[Child(i)]

\* the loop's exit test: closed (after `if not closed: closed = signal_closed.isSet()`)
\* and not has_unwritten_data
LoopBreaks(i) == (closed[i] \/ sigval[Child(i)]) /\ ~HasUnwrittenData(i)

\* top of the while loop; on break, os._exit(0) closes every descriptor of the child
CollectorTop(i) ==
    /\ cpc[i] = "c_top"
    /\ closed' = [closed EXCEPT ![i] = closed[i] \/ sigval[Child(i)]]
    /\ IF LoopBreaks(i)
       THEN /\ cpc' = [cpc EXCEPT ![i] = "exited"]
            /\ fdt' = [fdt EXCEPT ![Child(i)] = EmptyTable]
       ELSE /\ cpc' = [cpc EXCEPT ![i] = "c_poll"]
            /\ UNCHANGED fdt
    /\ UNCHANGED <<mode, transparent, origNonblock, ppc, cur, nonblock, chan, opipe, dest,
                   sinks, sdata, reg, sigpend, sigval, captured, wlog, raised, closeLog,
                   dupCloses, budget,
                   files, broken, fileOut, rlog>>

\* poll.poll(1) is interrupted by the signal: except select.error: events = ()
CollectorPollInterrupted(i) ==
    /\ cpc[i] = "c_poll"
    /\ sigpend[Child(i)]
    /\ sigpend' = [sigpend EXCEPT ![Child(i)] = FALSE]
    /\ sigval' = [sigval EXCEPT ![Child(i)] = TRUE]
    /\ cpc' = [cpc EXCEPT ![i] = "c_top"]
    /\ UNCHANGED <<mode, transparent, origNonblock, ppc, cur, fdt, nonblock, chan, opipe, dest,
                   closed, sinks, sdata, reg, captured, wlog, raised, closeLog, dupCloses, budget,
                   files, broken, fileOut, rlog>>

\* events = poll.poll(1) and the for loop over the events (the event on r is
\* handled first; a poll that times out handles nothing)
CollectorPoll(i) ==
    /\ cpc[i] = "c_poll"
    /\ LET c == Child(i)
           rIn == "r" \in reg[i] /\ chan[i] # <<>>               \* POLLIN on r
           rHup == "r" \in reg[i] /\ Holders(ChW(i)) = {}        \* POLLHUP on r
           outReady == "outpipe" \in reg[i] /\ Len(opipe[i]) < OutCap
           origReady == "orig" \in reg[i]
           fileReady == "file" \in reg[i]
           data == chan[i]                                      \* data = r_fh.read()
           sd1 == [n \in SinkNames |->
                     IF rIn /\ n \in Range(sinks[i]) THEN SinkBuffer(sdata[i][n], data)
                     ELSE sdata[i][n]]
           reg1 == IF rIn THEN reg[i] \cup Range(sinks[i]) ELSE reg[i]
           reg2 == IF rHup THEN reg1 \ {"r"} ELSE reg1
           kOut == IF outReady THEN Min(Len(sd1["outpipe"]), OutCap - Len(opipe[i])) ELSE 0
           wOut == SinkWrite(sd1["outpipe"], kOut)
       IN \E kOrig \in WriteResults(origReady, broken = "orig", sd1["orig"]) :
          \E kFile \in WriteResults(fileReady, broken = "file", sd1["file"]) :
            LET wOrig == SinkWriteResult(sd1["orig"], kOrig)
                wFile == SinkWriteResult(sd1["file"], kFile)
                n == IF fdt[c][DupSlot(i)] = Orig(1) THEN 1 ELSE 2
            IN /\ chan' = [chan EXCEPT ![i] = IF rIn THEN <<>> ELSE @]
               /\ rlog' = [rlog EXCEPT ![i] = IF rIn THEN @ \o data ELSE @]
               /\ closed' = [closed EXCEPT ![i] = @ \/ rHup]
               /\ opipe' = [opipe EXCEPT ![i] = @ \o Take(sd1["outpipe"], kOut)]
               /\ dest' = [dest EXCEPT ![n] = @ \o Taken(sd1["orig"], kOrig)]
               /\ fileOut' = fileOut \o Taken(sd1["file"], kFile)
               /\ sdata' = [sdata EXCEPT ![i] = [sd1 EXCEPT !["outpipe"] = wOut[1],
                                                            !["orig"] = wOrig[1],
                                                            !["file"] = wFile[1]]]
               /\ reg' = [reg EXCEPT ![i] =
                            ((reg2 \ (IF outReady /\ wOut[2] THEN {"outpipe"} ELSE {}))
                                   \ (IF origReady /\ wOrig[2] THEN {"orig"} ELSE {}))
                                   \ (IF fileReady /\ wFile[2] THEN {"file"} ELSE {})]
    /\ cpc' = [cpc EXCEPT ![i] = "c_top"]
    /\ UNCHANGED <<mode, transparent, origNonblock, ppc, cur, fdt, nonblock, sinks, sigpend,
                   sigval, captured, wlog, raised, closeLog, dupCloses, budget, files, broken>>

\* a destination the splicer child writes to goes away (its reader exits, the
\* file is revoked): every later os.write to it raises
DestinationBreaks(n) ==
    /\ broken = "none"
    /\ ppc = "work"
    /\ \E i \in Splices : n \in Range(sinks[i])
    /\ broken' = n
    /\ UNCHANGED <<mode, transparent, origNonblock, ppc, cur, fdt, nonblock, chan, opipe, dest,
                   cpc, closed, sinks, sdata, reg, sigpend, sigval, captured, wlog, raised,
                   closeLog, dupCloses, budget, files, fileOut, rlog>>

\* the Python-level handler _sighandler runs in the receiving process: self.value = True
DeliverSignal(p) ==
    /\ sigpend[p]
    /\ p = "P" \/ \E i \in Splices : p = Child(i) /\ cpc[i] \notin {"unborn", "exited", "reaped"}
    /\ sigpend' = [sigpend EXCEPT ![p] = FALSE]
    /\ sigval' = [sigval EXCEPT ![p] = TRUE]
    /\ UNCHANGED <<mode, transparent, origNonblock, ppc, cur, fdt, nonblock, chan, opipe, dest,
                   cpc, closed, sinks, sdata, reg, captured, wlog, raised, closeLog,
                   dupCloses, budget,
                   files, broken, fileOut, rlog>>

\* ---------------------------------------------------------------- the code under the trap
\* one os.write of one byte to fd 1 or fd 2; it blocks while the channel is full
ProducerWrite(n) ==
    /\ ppc = "work"
    /\ Len(wlog) < budget
    /\ LET d == fdt["P"][StdFd(n)]
           b == <<n, Len(wlog) + 1>>
       IN /\ wlog' = Append(wlog, b)
          /\ IF \E j \in Splices : d = ChW(j)
             THEN LET j == CHOOSE j \in Splices : d = ChW(j)
                  IN /\ Len(chan[j]) < PipeCap
                     /\ chan' = [chan EXCEPT ![j] = Append(@, b)]
                     /\ UNCHANGED dest
             ELSE /\ dest' = [dest EXCEPT ![d[2]] = Append(@, b)]
                  /\ UNCHANGED chan
    /\ UNCHANGED <<mode, transparent, origNonblock, ppc, cur, fdt, nonblock, opipe, cpc,
                   closed, sinks, sdata, reg, sigpend, sigval, captured, raised,
                   closeLog, dupCloses, budget,
                   files, broken, fileOut, rlog>>

\* mutant of AfterCallback: trap.close() is not in a finally clause
AfterCallbackNoFinally(r) == IF r THEN "done" ELSE "k_restore"

\* silence/getoutput: try: callback(*args) finally: trap.close() -- where control
\* goes when the callback returns (r = FALSE) or raises (r = TRUE)
AfterCallback(r) == "k_restore"

\* the code under the trap ends; under silence/getoutput it may end by raising
WorkEnds(r) ==
    /\ ppc = "work"
    /\ r => mode = "helper"
    /\ raised' = r
    /\ ppc' = AfterCallback(r)
    /\ cur' = 1
    /\ UNCHANGED <<mode, transparent, origNonblock, fdt, nonblock, chan, opipe, dest, cpc,
                   closed, sinks, sdata, reg, sigpend, sigval, captured, wlog, closeLog,
                   dupCloses, budget,
                   files, broken, fileOut, rlog>>

\* ---------------------------------------------------------------- Splicer.close
\* os.dup2(self.orig_fd_dup, self.spliced_fd)
CloseRestore(i) ==
    /\ ppc = "k_restore" /\ cur = i
    /\ fdt' = [fdt EXCEPT !["P"][StdFd(i)] = fdt["P"][DupSlot(i)]]
    /\ closeLog' = [closeLog EXCEPT ![i] = Append(@, "restore")]
    /\ ppc' = "k_signal"
    /\ UNCHANGED <<mode, transparent, origNonblock, cur, nonblock, chan, opipe, dest, cpc,
                   closed, sinks, sdata, reg, sigpend, sigval, captured, wlog, raised,
                   dupCloses, budget,
                   files, broken, fileOut, rlog>>

\* mutant of CloseSignal: the stop signal is not sent
CloseSignalOmitted(i) ==
    /\ ppc = "k_signal" /\ cur = i
    /\ closeLog' = [closeLog EXCEPT ![i] = Append(@, "signal")]
    /\ ppc' = "k_closedup"
    /\ UNCHANGED <<mode, transparent, origNonblock, cur, fdt, nonblock, chan, opipe, dest,
                   cpc, closed, sinks, sdata, reg, sigpend, sigval, captured, wlog, raised,
                   dupCloses, budget,
                   files, broken, fileOut, rlog>>

\* SignalEvent.send(self.splicer_pid)
CloseSignal(i) ==
    /\ ppc = "k_signal" /\ cur = i
    /\ sigpend' = [sigpend EXCEPT ![Child(i)] = TRUE]
    /\ closeLog' = [closeLog EXCEPT ![i] = Append(@, "signal")]
    /\ ppc' = "k_closedup"
    /\ UNCHANGED <<mode, transparent, origNonblock, cur, fdt, nonblock, chan, opipe, dest,
                   cpc, closed, sinks, sdata, reg, sigval, captured, wlog, raised, dupCloses, budget,
                   files, broken, fileOut, rlog>>

\* mutant of CloseOrigDup: orig_fd_dup is left open
CloseOrigDupLeaked(i) ==
    /\ ppc = "k_closedup" /\ cur = i
    /\ closeLog' = [closeLog EXCEPT ![i] = Append(@, "close_dup")]
    /\ ppc' = "k_read"
    /\ UNCHANGED <<mode, transparent, origNonblock, cur, fdt, nonblock, chan, opipe, dest,
                   cpc, closed, sinks, sdata, reg, sigpend, sigval, captured, wlog, raised,
                   dupCloses, budget,
                   files, broken, fileOut, rlog>>

\* os.close(self.orig_fd_dup)
CloseOrigDup(i) ==
    /\ ppc = "k_closedup" /\ cur = i
    /\ fdt' = [fdt EXCEPT !["P"][DupSlot(i)] = None]
    /\ dupCloses' = [dupCloses EXCEPT ![i] = @ + 1]
    /\ closeLog' = [closeLog EXCEPT ![i] = Append(@, "close_dup")]
    /\ ppc' = "k_read"
    /\ UNCHANGED <<mode, transparent, origNonblock, cur, nonblock, chan, opipe, dest, cpc,
                   closed, sinks, sdata, reg, sigpend, sigval, captured, wlog, raised, budget,
                   files, broken, fileOut, rlog>>

\* captured = self.splicer_reader.read(): takes what outpipe holds ...
CloseRead(i) ==
    /\ ppc = "k_read" /\ cur = i
    /\ opipe[i] # <<>>
    /\ captured' = [captured EXCEPT ![i] = @ \o opipe[i]]
    /\ opipe' = [opipe EXCEPT ![i] = <<>>]
    /\ UNCHANGED <<mode, transparent, origNonblock, ppc, cur, fdt, nonblock, chan, dest, cpc,
                   closed, sinks, sdata, reg, sigpend, sigval, wlog, raised, closeLog,
                   dupCloses, budget,
                   files, broken, fileOut, rlog>>

\* mutant of CloseReadEof: the read returns as soon as outpipe is empty
CloseReadEofEarly(i) ==
    /\ ppc = "k_read" /\ cur = i
    /\ opipe[i] = <<>>
    /\ closeLog' = [closeLog EXCEPT ![i] = Append(@, "read")]
    /\ ppc' = "k_reap"
    /\ UNCHANGED <<mode, transparent, origNonblock, cur, fdt, nonblock, chan, opipe, dest,
                   cpc, closed, sinks, sdata, reg, sigpend, sigval, captured, wlog, raised,
                   dupCloses, budget, files, broken, fileOut, rlog>>

\* ... and returns at end-of-stream: outpipe is empty and nobody holds its write end
CloseReadEof(i) ==
    /\ ppc = "k_read" /\ cur = i
    /\ opipe[i] = <<>>
    /\ Holders(OpW(i)) = {}
    /\ closeLog' = [closeLog EXCEPT ![i] = Append(@, "read")]
    /\ ppc' = "k_reap"
    /\ UNCHANGED <<mode, transparent, origNonblock, cur, fdt, nonblock, chan, opipe, dest,
                   cpc, closed, sinks, sdata, reg, sigpend, sigval, captured, wlog, raised,
                   dupCloses, budget,
                   files, broken, fileOut, rlog>>

\* where the close of the trap goes on after Splicer i is closed
AfterClose(m, i) ==
    IF m = "dual" /\ i = 1 THEN <<"k_restore", 2>>
    ELSE IF m \in {"united", "helper"} THEN <<"u_restore", 1>>
    ELSE <<"done", 1>>

\* os.waitpid(self.splicer_pid, 0); return captured
CloseReap(i) ==
    /\ ppc = "k_reap" /\ cur = i
    /\ cpc[i] = "exited"
    /\ cpc' = [cpc EXCEPT ![i] = "reaped"]
    /\ closeLog' = [closeLog EXCEPT ![i] = Append(@, "reap")]
    /\ ppc' = AfterClose(mode, i)[1]
    /\ cur' = AfterClose(mode, i)[2]
    /\ UNCHANGED <<mode, transparent, origNonblock, fdt, nonblock, chan, opipe, dest,
                   closed, sinks, sdata, reg, sigpend, sigval, captured, wlog, raised,
                   dupCloses, budget,
                   files, broken, fileOut, rlog>>

\* UnitedStdTrap.close: os.dup2(self.stderr_dupfd, sys.stderr.fileno())
UnitedRestore ==
    /\ ppc = "u_restore"
    /\ fdt' = [fdt EXCEPT !["P"][StdFd(2)] = fdt["P"][StderrDupSlot]]
    /\ ppc' = "u_close"
    /\ UNCHANGED <<mode, transparent, origNonblock, cur, nonblock, chan, opipe, dest, cpc,
                   closed, sinks, sdata, reg, sigpend, sigval, captured, wlog, raised,
                   closeLog, dupCloses, budget,
                   files, broken, fileOut, rlog>>

\* UnitedStdTrap.close: os.close(self.stderr_dupfd)
UnitedClose ==
    /\ ppc = "u_close"
    /\ fdt' = [fdt EXCEPT !["P"][StderrDupSlot] = None]
    /\ ppc' = "done"
    /\ UNCHANGED <<mode, transparent, origNonblock, cur, nonblock, chan, opipe, dest, cpc,
                   closed, sinks, sdata, reg, sigpend, sigval, captured, wlog, raised,
                   closeLog, dupCloses, budget,
                   files, broken, fileOut, rlog>>

\* ---------------------------------------------------------------- specification
Next ==
    \/ \E i \in Splices : SpliceDup(i)
    \/ \E i \in Splices : SplicePipe(i)
    \/ \E i \in Splices : SpliceDup2(i)
    \/ \E i \in Splices : SpliceOutpipe(i)
    \/ \E i \in Splices : SpliceFork(i)
    \/ \E i \in Splices : SpliceFail(i)
    \/ \E i \in Splices : SpliceParentClose(i)
    \/ \E i \in Splices : SpliceWait(i)
    \/ UnitedDup
    \/ UnitedDup2
    \/ \E i \in Splices : CollectorSetup(i)
    \/ \E i \in Splices : CollectorSignal(i)
    \/ \E i \in Splices : CollectorSinks(i)
    \/ \E i \in Splices : CollectorTop(i)
    \/ \E i \in Splices : CollectorPollInterrupted(i)
    \/ \E i \in Splices : CollectorPoll(i)
    \/ \E p \in Procs : DeliverSignal(p)
    \/ \E n \in {"orig", "file"} : DestinationBreaks(n)
    \/ \E n \in {1, 2} : ProducerWrite(n)
    \/ \E r \in BOOLEAN : WorkEnds(r)
    \/ \E i \in Splices : CloseRestore(i)
    \/ \E i \in Splices : CloseSignal(i)
    \/ \E i \in Splices : CloseOrigDup(i)
    \/ \E i \in Splices : CloseRead(i)
    \/ \E i \in Splices : CloseReadEof(i)
    \/ \E i \in Splices : CloseReap(i)
    \/ UnitedRestore
    \/ UnitedClose

Spec == Init /\ [][Next]_vars

\* ---------------------------------------------------------------- properties
\* the bytes written into the channel of Splicer i, in write order: under
\* UnitedStdTrap fd 1 and fd 2 both refer to the channel of Splicer 1
Written(i) == SelectTo(wlog, IF mode \in {"united", "helper"} THEN {1, 2} ELSE {i})

\* Splicer.close of Splicer i has returned
CloseReturned(i) == closeLog[i] # <<>> /\ closeLog[i][Len(closeLog[i])] = "reap"

\* C1: with transparency off, once Splicer.close has returned, the bytes it
\* returned are exactly the bytes written to the spliced fd, in write order,
\* and the original destination of that fd has received nothing.
C1_CaptureExact ==
    \A i \in Splices :
        (~transparent /\ CloseReturned(i)) =>
            (captured[i] = Written(i) /\ dest[i] = <<>>)

\* C2: with transparent=True, once Splicer.close has returned, the original
\* destination has received exactly the bytes written to the spliced fd, in
\* write order, and Splicer.close returned exactly those bytes too.
C2_TransparentExact ==
    \A i \in Splices :
        (transparent /\ CloseReturned(i)) =>
            (dest[i] = Written(i) /\ captured[i] = Written(i))

\* C3: when more bytes were written to a trapped stream than the channel can
\* hold, and the parent read outpipe only in Splicer.close, the bytes returned
\* by Splicer.close are all the bytes written.
C3_OverflowCaptured ==
    \A i \in Splices :
        (mode = "dual" /\ ~transparent /\ CloseReturned(i) /\ Len(Written(i)) > PipeCap) =>
            Len(captured[i]) = Len(Written(i))

\* the processes take steps as long as they can: the kernel schedules every
\* runnable process and delivers every pending signal
ParentStep ==
    \/ \E i \in Splices : SpliceDup(i) \/ SplicePipe(i) \/ SpliceDup2(i) \/ SpliceOutpipe(i)
    \/ \E i \in Splices : SpliceFork(i) \/ SpliceParentClose(i) \/ SpliceWait(i)
    \/ UnitedDup \/ UnitedDup2
    \/ \E r \in BOOLEAN : WorkEnds(r)
    \/ \E i \in Splices : CloseRestore(i) \/ CloseSignal(i) \/ CloseOrigDup(i)
    \/ \E i \in Splices : CloseRead(i) \/ CloseReadEof(i) \/ CloseReap(i)
    \/ UnitedRestore \/ UnitedClose

CollectorStep(i) ==
    CollectorSetup(i) \/ CollectorSignal(i) \/ CollectorSinks(i) \/ CollectorTop(i)
        \/ CollectorPoll(i)

\* the behaviours checked for termination write at most MaxFairWrites bytes
FairInit == InitWith(MaxFairWrites)

FairSpec ==
    /\ FairInit /\ [][Next]_vars
    /\ WF_vars(ParentStep)
    /\ \A i \in Splices : WF_vars(CollectorStep(i))
    /\ \A p \in Procs : WF_vars(DeliverSignal(p))

\* C4: the start of a Splicer returns once the child is forked, and a trap
\* that is closed with nothing written under it terminates with every trapped
\* stream's captured buffer empty, whatever the trap and whether transparent
\* or not.
C4_EmptyTrapTerminates ==
    /\ (ppc \in {"s_pclose", "s_wait"}) ~> (ppc \notin {"s_pclose", "s_wait"})
    /\ (ppc = "k_restore" /\ cur = 1 /\ wlog = <<>>)
          ~> (ppc = "done" /\ \A i \in Splices : captured[i] = <<>>)

\* C4 witness: the stop signal has been handled by a collector that has not
\* entered its loop yet, with nothing written
C4_Witness ==
    /\ wlog = <<>>
    /\ ppc = "k_read"
    /\ \E i \in Splices : cpc[i] = "c_sinks" /\ sigval[Child(i)]

\* C5: under UnitedStdTrap, once Splicer.close has returned, the single
\* captured buffer holds every byte written to fd 1 and to fd 2, in the order
\* of the writes.
C5_UnitedAllInOrder ==
    (mode = "united" /\ CloseReturned(1)) => captured[1] = wlog

\* C6: under a dual-stream StdTrap, the stdout buffer only ever holds bytes
\* written to fd 1 and the stderr buffer only bytes written to fd 2.
C6_DualSeparate ==
    mode = "dual" =>
        \A i \in Splices : \A k \in 1..Len(captured[i]) : captured[i][k][1] = i

C6_Witness ==
    /\ mode = "dual" /\ ppc = "done"
    /\ captured[1] # <<>> /\ captured[2] # <<>>

\* fd n refers to what it referred to before the trap, with its blocking mode
Restored(n) == fdt["P"][StdFd(n)] = Orig(n) /\ nonblock[Orig(n)] = origNonblock[n]

\* C7: after Splicer.close has returned, the spliced fd refers to its original
\* target with its original blocking mode; after the close of the trap has
\* returned, this holds of fd 1 and fd 2 (UnitedStdTrap included).
C7_FdRestored ==
    /\ \A i \in Splices : CloseReturned(i) => Restored(i)
    /\ ppc = "done" => (Restored(1) /\ Restored(2))

C7_Witness ==
    /\ mode = "united" /\ ppc = "done" /\ origNonblock[2]
    /\ \E k \in 1..Len(wlog) : wlog[k][1] = 2

\* C8: when silence/getoutput is over, by return or by the callback's error,
\* UnitedStdTrap.close has run: fd 1 and fd 2 are restored and the collector
\* has exited and been reaped.
C8_HelperAlwaysCloses ==
    (mode = "helper" /\ ppc = "done") =>
        /\ CloseReturned(1)
        /\ cpc[1] = "reaped"
        /\ fdt["P"][StdFd(1)] = Orig(1) /\ fdt["P"][StdFd(2)] = Orig(2)

C8_Witness == mode = "helper" /\ ppc = "done" /\ raised /\ wlog # <<>>

\* C9: when a step of the start of a Splicer has failed, no descriptor that the
\* start opened is left open and the spliced fd refers to its original target.
C9_FailedStartLeavesNothing ==
    ppc = "start_failed" =>
        /\ fdt["P"][StdFd(cur)] = Orig(cur)
        /\ \A s \in {DupSlot(cur), RSlot(cur), WSlot(cur), OutRSlot(cur), OutWSlot(cur)} :
               fdt["P"][s] = None

\* the order of the steps of Splicer.close
CloseOrder == <<"restore", "signal", "close_dup", "read", "reap">>

\* C10: Splicer.close performs restore, signal, close of orig_fd_dup, read to
\* end-of-stream and reap in this order; once it has returned, the collector
\* has exited and been reaped and the parent has closed orig_fd_dup exactly once.
C10_CloseOrder ==
    \A i \in Splices :
        /\ IsPrefix(closeLog[i], CloseOrder)
        /\ CloseReturned(i) =>
              /\ cpc[i] = "reaped"
              /\ Holders(OpW(i)) = {}
              /\ fdt["P"][DupSlot(i)] = None
              /\ dupCloses[i] = 1

C10_Witness == mode = "dual" /\ CloseReturned(1) /\ CloseReturned(2) /\ wlog # <<>>

\* the bytes the destination of sink n of splicer child i has received
SinkOut(i, n) ==
    IF n = "outpipe" THEN captured[i] \o opipe[i]
    ELSE IF n = "file" THEN fileOut
    ELSE dest[i]

\* the splicer child i has left its loop (os._exit)
Exited(i) == cpc[i] \in {"exited", "reaped"}

\* C11: whenever a splicer child has left its loop, every one of its sinks has
\* an empty buffer and has received all the bytes the child read; outpipe's
\* write end is held by nobody only once the child has left its loop.
C11_ExitsDrained ==
    \A i \in Splices :
        /\ Exited(i) =>
              \A n \in Range(sinks[i]) : sdata[i][n] = <<>> /\ SinkOut(i, n) = rlog[i]
        /\ (cpc[i] # "unborn" /\ Holders(OpW(i)) = {}) => Exited(i)

C11_Witness ==
    \E i \in Splices : cpc[i] = "exited" /\ transparent /\ Len(rlog[i]) >= 2

\* C12: for every sink, the bytes already written to its fd followed by its
\* pending buffer are the bytes passed to buffer(), in order; a sink is
\* unregistered (write() returned true) exactly when its buffer is empty.
C12_SinkConservation ==
    \A i \in Splices : \A n \in Range(sinks[i]) :
        /\ SinkOut(i, n) \o sdata[i][n] = rlog[i]
        /\ cpc[i] \in {"c_top", "c_poll"} => (n \in reg[i] <=> sdata[i][n] # <<>>)

\* C12 witness: a sink after a partial write
C12_Witness ==
    \E i \in Splices : \E n \in Range(sinks[i]) :
        SinkOut(i, n) # <<>> /\ sdata[i][n] # <<>> /\ n # "outpipe"

\* C19: once Splicer.close has returned, the bytes it returned are the bytes
\* the splicer child read from the channel, and the bytes a child has read are
\* always a prefix of the bytes written to the spliced fd.
C19_CapturedIsReadPrefix ==
    \A i \in Splices :
        /\ IsPrefix(rlog[i], Written(i))
        /\ CloseReturned(i) => captured[i] = rlog[i]

\* C19 witness: Splicer.close has returned a non-empty strict prefix
C19_Witness ==
    \E i \in Splices :
        CloseReturned(i) /\ captured[i] # <<>> /\ Len(captured[i]) < Len(Written(i))

\* C13: when the write of a sink fails, the sink is not drained: the step
\* leaves the child in its loop, the sink registered, its destination as it
\* was, and its buffer as it was but for the bytes read in the same iteration.
C13_FailedWriteKeepsData ==
    [][\A i \in Splices : \A n \in {"orig", "file"} :
          (broken = n /\ n \in reg[i] /\ cpc[i] = "c_poll" /\ cpc'[i] # "c_poll") =>
              /\ cpc'[i] = "c_top"
              /\ n \in reg'[i]
              /\ sdata'[i][n] = sdata[i][n] \o Drop(rlog'[i], Len(rlog[i]))
              /\ SinkOut(i, n)' = SinkOut(i, n)]_vars

\* C13 witness: a broken sink keeps its bytes while outpipe has delivered all
C13_Witness ==
    \E i \in Splices :
        /\ broken \in Range(sinks[i]) /\ sdata[i][broken] # <<>> /\ broken \in reg[i]
        /\ cpc[i] = "c_top" /\ ppc = "k_read" /\ captured[i] = rlog[i]

\* C14: every sink whose destination works receives the bytes in the order
\* they were written to the spliced fd, and of the bytes the child read none is
\* missing from or twice in what the sink has written and still holds,
\* whatever the other sinks do.
C14_SinksIndependent ==
    \A i \in Splices : \A n \in Range(sinks[i]) :
        broken # n =>
            /\ IsPrefix(SinkOut(i, n), Written(i))
            /\ IsPrefix(sdata[i][n], Drop(rlog[i], Len(SinkOut(i, n))))
            /\ Len(SinkOut(i, n)) + Len(sdata[i][n]) = Len(rlog[i])

\* C14 witness: orig_fd_dup is broken and holds bytes, the file and outpipe
\* have received every byte the child read
C14_Witness ==
    /\ files /\ transparent /\ broken = "orig" /\ sdata[1]["orig"] # <<>>
    /\ Len(rlog[1]) >= 2 /\ fileOut = rlog[1] /\ captured[1] = rlog[1]

\* the open file a sink writes to
SinkDesc(i, n) ==
    IF n = "outpipe" THEN OpW(i) ELSE IF n = "file" THEN FileDesc ELSE Orig(i)

\* C15: every descriptor the splicer child writes to as a sink (outpipe, each
\* extra file, orig_fd_dup when transparent) is in non-blocking mode.
C15_SinksNonblocking ==
    \A i \in Splices :
        cpc[i] \in {"c_top", "c_poll"} =>
            \A n \in Range(sinks[i]) : nonblock[SinkDesc(i, n)]

\* Splicer i was forked and its constructor has returned in the parent
StartReturned(i) == cpc[i] # "unborn" /\ ~(cur = i /\ ppc \in {"s_pclose", "s_wait"})

\* the splicer child i has closed its unused ends and set r and outpipe non-blocking
ChildSetupDone(i) ==
    /\ fdt[Child(i)][OutRSlot(i)] = None /\ fdt[Child(i)][StdFd(i)] = None
    /\ nonblock[ChR(i)] /\ nonblock[OpW(i)]

C17_NoWriterAfterRestore ==
    \A i \in Splices : closeLog[i] # <<>> => Holders(ChW(i)) = {}

\* C18: with a sink whose writes fail for good, the close of the trap, once
\* begun, still returns.
C18_StopReturnsDespiteBrokenSink ==
    (broken # "none" /\ ppc = "k_restore") ~> (ppc = "done")

\* C20 as stated: when the close of the trap has returned, the descriptor
\* table of the parent is as it was before the trap was started.
C20_TableAsBefore == ppc = "done" => fdt["P"] = TableBefore(files)

\* what Splicer.close leaves in the parent: splicer_reader of each started Splicer
TableAfter(f) ==
    [s \in Slots |->
        IF \E i \in Splices : s = OutRSlot(i) /\ cpc[i] # "unborn" THEN OpR(s[2])
        ELSE TableBefore(f)[s]]

\* C20 amended: when the close of the trap has returned, every descriptor the
\* parent obtained during start is closed except splicer_reader (the read end
\* of outpipe), which stays open as long as the Splicer object holds it; the
\* rest of the table is as it was before the trap was started.
C20_TableAsBeforeButReader == ppc = "done" => fdt["P"] = TableAfter(files)

C20_Witness == ppc = "done" /\ mode = "dual" /\ wlog # <<>> /\ fdt["P"][OutRSlot(2)] = OpR(2)

====
